---- MODULE Spec2Model ----
(***************************************************************************)
(* Model of mobile_supervisor.py: a Streamlit form application that keeps  *)
(* its records in the worksheets of one remote spreadsheet.                *)
(*                                                                         *)
(* A worksheet is a grid: a sequence of rows, each a sequence of cells,    *)
(* row 1 being the header row.  Every cell is the string the spreadsheet   *)
(* shows for it; numbers are written through NumStr and read back through  *)
(* StrNum.  One action is one script run: the top of the script (the       *)
(* cached fetches of lines 193-198), the handler of the widget the user    *)
(* pressed, and the rerun the handler asks for.  Every remote call may     *)
(* fail; the input `f` of a handler names the remote call that fails       *)
(* (0: none does).  Where the runs of two browser sessions overlap, a run   *)
(* is split at the remote calls of its data helper, one action per call.   *)
(***************************************************************************)
EXTENDS Integers, Sequences, FiniteSets, TLC

VARIABLES
  sheets,         \* worksheet name -> grid (the remote store)
  cache,          \* st.cache_data: worksheet name -> frame returned by get_data
  stale,          \* history: cached worksheets fetched before the latest store change
  workers,        \* line 194: the worker list of the latest script run
  current_stock,  \* line 195: the ledger of the latest script run
  metrics,        \* lines 652-658: the Stock Overview tiles of the latest run
  batch_rows,     \* lines 326-338: the rows the latest run built, if it was a Submit Log
  grouped,        \* lines 521-524: the consolidated rows of the latest run, if it set the filters
  req,            \* the widget pressed in the latest run, with its inputs
  ret,            \* what the data helper of the latest run returned
  shown,          \* the message the latest run showed
  calls,          \* the remote calls the latest handler issued, in order
  nextId,         \* number of uuid4 tokens handed out so far
  sessions        \* the runs of the browser sessions that are inside a data helper

vars == <<sheets, cache, stale, workers, current_stock, metrics, batch_rows, grouped,
          req, ret, shown, calls, nextId, sessions>>

----------------------------------------------------------------------------
(* Bounds of the model.                                                    *)

MaxRows == 3     \* data rows a worksheet may hold
MaxIds == 4      \* uuid4 tokens that may be generated
MaxNum == 10     \* magnitude of the numbers a cell may show

----------------------------------------------------------------------------
(* Values.                                                                 *)

Tables == {"WorkLogs", "Inventory", "Workers"}

\* A list and a dict as values: the sequence, respectively the function,
\* with every element computed.
List(xs) == xs \o <<>>
Dict(d) == d @@ d

\* str(uuid.uuid4()): the n-th token generated.
Uuid(n) == "u" \o ToString(n)

\* A number as the spreadsheet shows it, and the number get_all_records
\* reads back from a numeric cell.
NumStr(n) == ToString(n)
NumTable == Dict([n \in (0 - MaxNum)..MaxNum |-> ToString(n)])
StrNum(s) == CHOOSE n \in (0 - MaxNum)..MaxNum : NumTable[n] = s

\* str(x).strip() on the material names that occur.
Strip(s) ==
  CASE s = " Cable" -> "Cable"
    [] s = "Cable " -> "Cable"
    [] s = " Lugs " -> "Lugs"
    [] OTHER -> s

\* float(row['Qty'] or 0)
QtyOf(s) == IF s = "" THEN 0 ELSE StrNum(s)

WorkLogsHeader ==
  <<"ID", "Date", "SC No/ DTR Code", "DTR_Box_No", "Transformer_SS_No", "Capacity",
    "Site", "Worker", "Material", "Qty", "Latitude", "Longitude", "Synced">>
InventoryHeader == <<"ID", "Date", "Material", "Qty", "Type", "Synced">>
WorkersHeader == <<"Name", "Synced">>

HeaderOf(t) ==
  CASE t = "WorkLogs" -> WorkLogsHeader
    [] t = "Inventory" -> InventoryHeader
    [] OTHER -> WorkersHeader

RECURSIVE SeqSum(_)
SeqSum(s) == IF s = <<>> THEN 0 ELSE Head(s) + SeqSum(Tail(s))

\* Position of name h in the list hs (headers.index(h) + 1); 0 when absent.
IndexOf(hs, h) ==
  IF \E i \in 1..Len(hs) : hs[i] = h
    THEN CHOOSE i \in 1..Len(hs) : hs[i] = h /\ \A j \in 1..(i - 1) : hs[j] # h
    ELSE 0

\* sorted(set, reverse=True)
RECURSIVE SortDesc(_)
SortDesc(S) ==
  IF S = {} THEN <<>>
  ELSE LET m == CHOOSE x \in S : \A y \in S : y <= x
       IN <<m>> \o SortDesc(S \ {m})

----------------------------------------------------------------------------
(* The remote store: the gspread worksheet calls the helpers use.          *)

\* ws.row_values(1)
row_values1(grid) == IF grid = <<>> THEN <<>> ELSE grid[1]

\* dict(zip(keys, row)) on the first k keys, a short row padded with "".
RECURSIVE Zip(_, _, _)
Zip(keys, row, k) ==
  IF k = 0 THEN <<>>
  ELSE (keys[k] :> (IF k <= Len(row) THEN row[k] ELSE "")) @@ Zip(keys, row, k - 1)

\* ws.get_all_records(): one record per data row, keyed by the header row.
get_all_records(grid) ==
  IF Len(grid) < 2 THEN <<>>
  ELSE List([i \in 1..(Len(grid) - 1) |-> Zip(grid[1], grid[i + 1], Len(grid[1]))])

\* ws.append_rows(rows) / ws.append_row(values): below the last row.
append_rows(grid, rows) == grid \o SelectSeq(rows, LAMBDA r : r # <<>>)

\* ws.findall(query): every cell of the grid whose value is the query.
findall(grid, q) ==
  UNION {{<<r, c>> : c \in {k \in 1..Len(grid[r]) : grid[r][k] = q}} : r \in 1..Len(grid)}

\* ws.find(query): the first such cell in row-major order; <<0, 0>> for None.
find(grid, q) ==
  LET hits == findall(grid, q)
  IN IF hits = {} THEN <<0, 0>>
     ELSE CHOOSE x \in hits :
            \A y \in hits : x[1] < y[1] \/ (x[1] = y[1] /\ x[2] <= y[2])

\* ws.delete_rows(r); a row below the last row of the data is empty.
delete_rows(grid, r) ==
  IF r > Len(grid) THEN grid
  ELSE SubSeq(grid, 1, r - 1) \o SubSeq(grid, r + 1, Len(grid))

\* ws.batch_update(updates): each update sets one cell <<r, c>> to a value;
\* a cell below the last row of the data is a cell of an empty row of the
\* worksheet, which the write fills.
batch_update(grid, updates) ==
  LET rs == {Len(grid)} \cup {u.r : u \in updates}
      last == CHOOSE m \in rs : \A x \in rs : x <= m
  IN List([r \in 1..last |->
       List([c \in 1..(IF r <= Len(grid) THEN Len(grid[r]) ELSE Len(grid[1])) |->
          IF \E u \in updates : u.r = r /\ u.c = c
            THEN (CHOOSE u \in updates : u.r = r /\ u.c = c).v
            ELSE IF r <= Len(grid) THEN grid[r][c] ELSE ""])])

----------------------------------------------------------------------------
(* Data helpers (lines 45-149).  A helper is an operator from the grid of  *)
(* its worksheet, its arguments and the failing remote call f to an        *)
(* outcome: the grid afterwards, whether clear_cache() ran, what it        *)
(* returned ("raise": an exception left the helper), what it showed with   *)
(* st.error, and the remote calls it issued.                               *)

Call(api, n, ok) == [api |-> api, n |-> n, ok |-> ok]
Out(grid, cleared, r, msg, cs) ==
  [grid |-> grid, cleared |-> cleared, ret |-> r, shown |-> msg, calls |-> cs]

EmptyFrame == [columns |-> <<>>, rows |-> <<>>]

\* A get_data whose except branch is never taken: a failed read passes for
\* a read.
get_data_unguarded(grid, failed) ==
  LET recs == get_all_records(grid)
  IN IF recs = <<>> \/ grid[1] = <<>> THEN EmptyFrame
     ELSE [columns |-> grid[1], rows |-> recs]

\* get_data (lines 48-54), the fetch behind the cache: any failure gives an
\* empty DataFrame, and so do records without a column (an empty header row).
get_data(grid, failed) ==
  LET recs == get_all_records(grid)
  IN IF failed \/ recs = <<>> \/ grid[1] = <<>> THEN EmptyFrame
     ELSE [columns |-> grid[1], rows |-> recs]

\* A save_batch_rows that appends its rows with one call each.
save_rows_one_by_one(grid, rows_list, f) ==
  LET n == Len(rows_list)
      k == IF f >= 2 /\ f <= n + 1 THEN f - 2 ELSE n      \* rows appended
  IN IF f = 1 THEN Out(grid, FALSE, "raise", "", <<Call("open", 0, FALSE)>>)
     ELSE Out(append_rows(grid, SubSeq(rows_list, 1, k)), k = n,
              IF k = n THEN "None" ELSE "raise", "",
              <<Call("open", 0, TRUE)>>
                \o List([i \in 1..(IF k = n THEN n ELSE k + 1) |-> Call("append_row", 1, i <= k)]))

\* save_batch_rows (lines 56-60)
save_batch_rows(grid, rows_list, f) ==
  IF f = 1 THEN Out(grid, FALSE, "raise", "", <<Call("open", 0, FALSE)>>)
  ELSE IF f = 2
    THEN Out(grid, FALSE, "raise", "",
             <<Call("open", 0, TRUE), Call("append_rows", Len(rows_list), FALSE)>>)
  ELSE Out(append_rows(grid, rows_list), TRUE, "None", "",
           <<Call("open", 0, TRUE), Call("append_rows", Len(rows_list), TRUE)>>)

\* save_row (lines 62-68); row_dict is a function from column names to cells.
save_row(grid, row_dict, f) ==
  LET headers == row_values1(grid)
      row_vals == List([k \in 1..Len(headers) |->
                     IF headers[k] \in DOMAIN row_dict THEN row_dict[headers[k]] ELSE ""])
      c1 == <<Call("open", 0, f # 1)>>
      c2 == c1 \o <<Call("row_values", 1, f # 2)>>
      c3 == c2 \o <<Call("append_row", 1, f # 3)>>
  IN IF f = 1 THEN Out(grid, FALSE, "raise", "", c1)
     ELSE IF f = 2 THEN Out(grid, FALSE, "raise", "", c2)
     ELSE IF f = 3 THEN Out(grid, FALSE, "raise", "", c3)
     ELSE Out(append_rows(grid, <<row_vals>>), TRUE, "None", "", c3)

\* The grid after the first k of the deletions rs (lines 80-81).
RECURSIVE DeleteEach(_, _, _)
DeleteEach(grid, rs, k) ==
  IF k = 0 \/ rs = <<>> THEN grid
  ELSE DeleteEach(delete_rows(grid, Head(rs)), Tail(rs), k - 1)

\* sorted(list(set([c.row for c in cell_list])), reverse=True)  (line 79)
RowsToDelete(grid, id_list) ==
  SortDesc({c[1] : c \in UNION {findall(grid, id_list[i]) : i \in 1..Len(id_list)}})

\* bulk_delete_rows (lines 70-86)
bulk_delete_rows(grid, id_list, f) ==
  LET n == Len(id_list)
      rows_to_delete == RowsToDelete(grid, id_list)
      m == Len(rows_to_delete)
      nf == IF f = 0 \/ f > n + 1 THEN n ELSE f - 1       \* findall calls issued
      finds == List([i \in 1..nf |-> Call("findall", i, f # i + 1)])
      nd == IF f = 0 \/ f > n + 1 + m THEN m ELSE f - n - 1 \* delete_rows calls issued
      dels == List([j \in 1..nd |-> Call("delete_rows", rows_to_delete[j], f # n + 1 + j)])
  IN IF id_list = <<>> THEN Out(grid, FALSE, "None", "", <<>>)
     ELSE IF f = 1 THEN Out(grid, FALSE, "raise", "", <<Call("open", 0, FALSE)>>)
     ELSE IF f # 0 /\ f <= n + 1
       THEN Out(grid, FALSE, "False", "Delete Error", <<Call("open", 0, TRUE)>> \o finds)
     ELSE IF f # 0 /\ f <= n + 1 + m
       THEN Out(DeleteEach(grid, rows_to_delete, nd - 1), FALSE, "False", "Delete Error",
                <<Call("open", 0, TRUE)>> \o finds \o dels)
     ELSE Out(DeleteEach(grid, rows_to_delete, m), TRUE, "True", "",
              <<Call("open", 0, TRUE)>> \o finds \o dels)

\* The cell updates update_row_data builds (lines 95-102): one per named
\* column that the header row holds.
Updates(headers, r, updated_data) ==
  {[r |-> r, c |-> IndexOf(headers, col), v |-> updated_data[col]] :
     col \in {k \in DOMAIN updated_data : IndexOf(headers, k) # 0}}

\* update_row_data (lines 88-110); updated_data is a function from column
\* names to cells.
update_row_data(grid, row_id, updated_data, f) ==
  LET cell == find(grid, row_id)
      r == cell[1]
      headers == row_values1(grid)
      updates == Updates(headers, r, updated_data)
      c1 == <<Call("open", 0, f # 1)>>
      c2 == c1 \o <<Call("find", 0, f # 2)>>
      c3 == c2 \o <<Call("row_values", 1, f # 3)>>
      c4 == c3 \o <<Call("batch_update", r, f # 4)>>
  IN IF f = 1 THEN Out(grid, FALSE, "raise", "", c1)
     ELSE IF f = 2 \/ r = 0 THEN Out(grid, FALSE, "False", "Update Error", c2)
     ELSE IF f = 3 THEN Out(grid, FALSE, "False", "Update Error", c3)
     ELSE IF updates = {} THEN Out(grid, FALSE, "False", "", c3)
     ELSE IF f = 4 THEN Out(grid, FALSE, "False", "Update Error", c4)
     ELSE Out(batch_update(grid, updates), TRUE, "True", "", c4)

\* update_worker_registry (lines 112-120); edited_df is a frame.
update_worker_registry(grid, edited_df, f) ==
  LET headers == row_values1(grid)
      cols == IF IndexOf(edited_df.columns, "Synced") = 0
                THEN edited_df.columns \o <<"Synced">> ELSE edited_df.columns
      values == List([i \in 1..Len(edited_df.rows) |->
                   List([k \in 1..Len(cols) |->
                      IF cols[k] \in DOMAIN edited_df.rows[i]
                        THEN edited_df.rows[i][cols[k]] ELSE "FALSE"])])
      c1 == <<Call("open", 0, f # 1)>>
      c2 == c1 \o <<Call("row_values", 1, f # 2)>>
      c3 == c2 \o <<Call("clear", 0, f # 3)>>
      c4 == c3 \o <<Call("update", 0, f # 4)>>
  IN IF f = 1 THEN Out(grid, FALSE, "raise", "", c1)
     ELSE IF f = 2 THEN Out(grid, FALSE, "raise", "", c2)
     ELSE IF f = 3 THEN Out(grid, FALSE, "raise", "", c3)
     ELSE IF f = 4 THEN Out(<<>>, FALSE, "raise", "", c4)
     ELSE Out(<<headers>> \o values, TRUE, "None", "", c4)

\* get_worker_list (lines 132-135) on the frame get_data("Workers") returns.
get_worker_list(df) ==
  IF df.rows # <<>> THEN List([i \in 1..Len(df.rows) |-> df.rows[i]["Name"]])
  ELSE <<"General">>

\* stock[mat] = stock.get(mat, 0.0) + d on the dict kept in insertion order.
StockAdd(stock, mat, d) ==
  IF \E i \in 1..Len(stock) : stock[i].item = mat
    THEN List([i \in 1..Len(stock) |->
            IF stock[i].item = mat THEN [item |-> mat, qty |-> stock[i].qty + d] ELSE stock[i]])
    ELSE Append(stock, [item |-> mat, qty |-> d])

\* One of the two loops of calculate_stock (lines 142-144 with sign 1, lines
\* 146-148 with sign -1) over the rows of a frame.
RECURSIVE StockFold(_, _, _)
StockFold(stock, rows, sign) ==
  IF rows = <<>> THEN stock
  ELSE StockFold(StockAdd(stock, Strip(Head(rows)["Material"]), sign * QtyOf(Head(rows)["Qty"])),
                 Tail(rows), sign)

\* A calculate_stock whose second loop adds.
calculate_stock_adding(df_in, df_out) == StockFold(StockFold(<<>>, df_in.rows, 1), df_out.rows, 1)

\* calculate_stock (lines 137-149) on the frames get_data returns.
calculate_stock(df_in, df_out) == StockFold(StockFold(<<>>, df_in.rows, 1), df_out.rows, 0 - 1)

\* The threshold of the "Low" delta (lines 656 and 658).
LowStockThreshold == 10

\* sorted(current_stock.items(), key=lambda x: x[1]): ascending by quantity,
\* ties in insertion order.
RECURSIVE SortByQty(_)
SortByQty(stock) ==
  IF stock = <<>> THEN <<>>
  ELSE LET i == CHOOSE i \in 1..Len(stock) :
                  /\ \A j \in 1..Len(stock) : stock[i].qty <= stock[j].qty
                  /\ \A j \in 1..(i - 1) : stock[j].qty # stock[i].qty
       IN <<stock[i]>> \o SortByQty(SubSeq(stock, 1, i - 1) \o SubSeq(stock, i + 1, Len(stock)))

\* A tile that is "Low" at the threshold too.
TileAtMost(e) ==
  [label |-> e.item, value |-> NumStr(e.qty),
   delta |-> IF e.qty <= LowStockThreshold THEN "Low" ELSE "None",
   color |-> IF e.qty > LowStockThreshold THEN "normal" ELSE "inverse"]

\* The tile st.metric draws for one ledger entry (lines 656-658).
Tile(e) ==
  [label |-> e.item, value |-> NumStr(e.qty),
   delta |-> IF e.qty < LowStockThreshold THEN "Low" ELSE "None",
   color |-> IF e.qty >= LowStockThreshold THEN "normal" ELSE "inverse"]

\* Stock Overview (lines 652-660)
StockOverview(stock) ==
  LET sorted_stock == SortByQty(stock)
  IN List([i \in 1..Len(sorted_stock) |-> Tile(sorted_stock[i])])

----------------------------------------------------------------------------
(* One script run.                                                         *)

NoCache == [t \in {} |-> EmptyFrame]

\* The browser sessions whose runs may overlap (each session runs the script
\* in a thread of its own), none of them inside a data helper.
Sessions == {"A", "B"}
Idle == [pc |-> "idle"]
NoSessions == [c \in Sessions |-> Idle]

\* The cached fetches of one run (lines 193-195, 463, 594, 624, 688): a
\* worksheet in the cache is served from it, another is fetched (and the
\* empty frame of a failed fetch is cached like any other).
Fill(c, sh, fails) ==
  Dict([t \in Tables |-> IF t \in DOMAIN c THEN c[t] ELSE get_data(sh[t], t \in fails)])

\* str(uuid.uuid4()) for the k-th row built in this run.
NewId(k) == Uuid(nextId + k)

\* The end of a run whose handler called a data helper on worksheet t with
\* outcome o: c1 is the cache after the top of the script, rerun says
\* whether the handler reached st.rerun(), fails2 are the fetches that fail
\* in the rerun, msg is what the run shows.  (The values of a run are bound
\* with \E x \in {e}, which computes each of them once.)
Finish(c1, t, o, rerun, fails2, msg) ==
  \E sh2 \in {[sheets EXCEPT ![t] = o.grid]} :
  \E c2 \in {IF o.cleared THEN NoCache ELSE c1} :
  \E c3 \in {IF rerun THEN Fill(c2, sh2, fails2) ELSE c2} :
  \E cv \in {IF rerun THEN c3 ELSE c1} :
  \E stock \in {calculate_stock(cv["Inventory"], cv["WorkLogs"])} :
     /\ sheets' = sh2
     /\ cache' = c3
     /\ stale' = IF o.cleared THEN {}
                 ELSE IF o.grid # sheets[t] THEN stale \cup {t}
                 ELSE stale
     /\ workers' = get_worker_list(cv["Workers"])
     /\ current_stock' = stock
     /\ metrics' = StockOverview(stock)
     /\ ret' = o.ret
     /\ shown' = msg
     /\ calls' = o.calls

\* A run that calls no data helper.
NoHelper(grid) == Out(grid, FALSE, "", "", <<>>)

\* The cache entries expire (ttl=60, lines 48, 122, 132).
TtlExpire ==
  /\ cache # NoCache
  /\ cache' = NoCache
  /\ stale' = {}
  /\ UNCHANGED <<sheets, workers, current_stock, metrics, batch_rows, grouped, req, ret, shown,
                 calls, nextId, sessions>>

\* "Refresh Data" (line 356): clear_cache(); st.rerun().
RefreshData(fails2) ==
  /\ Finish(NoCache, "WorkLogs", [NoHelper(sheets["WorkLogs"]) EXCEPT !.cleared = TRUE],
            TRUE, fails2, "")
  /\ req' = [op |-> "refresh"]
  /\ batch_rows' = <<>>
  /\ grouped' = {}
  /\ UNCHANGED <<nextId, sessions>>

\* "DTR" in w_meter_type.upper() (line 264) on the installation types used.
IsDtr(T) == T \in {"DTR", "Dtr 25kVA"}

\* Rows built with a Lugs row for every quantity, zero included.
BatchRowsZeroLugs(w) ==
  LET meta_data == <<w.date, w.main_id, w.dtr_box, w.ss_no, w.capacity, w.site, w.worker>>
      gps_data == <<w.lat, w.long>>
      box == <<<<NewId(1)>> \o meta_data \o <<w.meter_type \o " Box", NumStr(1)>> \o gps_data
                 \o <<"FALSE">>>>
      cable == IF w.qty_cable > 0
                 THEN <<<<NewId(2)>> \o meta_data \o <<"Cable", NumStr(w.qty_cable)>>
                          \o gps_data \o <<"FALSE">>>>
                 ELSE <<>>
      lugs == <<<<NewId(Len(cable) + 2)>> \o meta_data \o <<"Lugs", NumStr(w.qty_lugs)>>
                  \o gps_data \o <<"FALSE">>>>
  IN box \o cable \o lugs

\* The rows Submit Log builds (lines 326-338) from the form w.
BatchRows(w) ==
  LET meta_data == <<w.date, w.main_id, w.dtr_box, w.ss_no, w.capacity, w.site, w.worker>>
      gps_data == <<w.lat, w.long>>
      box_item_name == w.meter_type \o " Box"
      box == <<<<NewId(1)>> \o meta_data \o <<box_item_name, NumStr(1)>> \o gps_data
                 \o <<"FALSE">>>>
      cable == IF w.qty_cable > 0
                 THEN <<<<NewId(Len(box) + 1)>> \o meta_data \o <<"Cable", NumStr(w.qty_cable)>>
                          \o gps_data \o <<"FALSE">>>>
                 ELSE <<>>
      lugs == IF w.qty_lugs > 0
                THEN <<<<NewId(Len(box) + Len(cable) + 1)>> \o meta_data
                         \o <<"Lugs", NumStr(w.qty_lugs)>> \o gps_data \o <<"FALSE">>>>
                ELSE <<>>
  IN box \o cable \o lugs

\* "Submit Log" (lines 260-346) with the form w.
SubmitLog(w, f, fails1, fails2) ==
  \E rows \in {BatchRows(w)} :
     /\ nextId + Len(rows) <= MaxIds
     /\ Len(sheets["WorkLogs"]) - 1 + Len(rows) <= MaxRows
     /\ ~IsDtr(w.meter_type) => w.dtr_box = "" /\ w.ss_no = "" /\ w.capacity = ""
     /\ \E c1 \in {Fill(cache, sheets, fails1)} :
        \E o \in {save_batch_rows(sheets["WorkLogs"], rows, f)} :
          /\ IndexOf(get_worker_list(c1["Workers"]), w.worker) # 0
          /\ Finish(c1, "WorkLogs", o, o.ret # "raise", fails2,
                    IF o.ret = "raise" THEN "Save Failed" ELSE "Log Saved")
     /\ batch_rows' = rows
     /\ grouped' = {}
     /\ req' = [op |-> "submit_log", form |-> w]
     /\ nextId' = nextId + Len(rows)
     /\ UNCHANGED sessions

\* "Add Stock" (lines 663-675)
AddStock(i_date, i_mat, i_qty, f, fails1, fails2) ==
  /\ nextId + 1 <= MaxIds
  /\ Len(sheets["Inventory"]) - 1 + 1 <= MaxRows
  /\ \E c1 \in {Fill(cache, sheets, fails1)} :
     \E payload \in {[ID |-> NewId(1), Date |-> i_date, Material |-> i_mat,
                      Qty |-> NumStr(i_qty), Type |-> "Inward", Synced |-> "FALSE"]} :
     \E o \in {save_row(sheets["Inventory"], payload, f)} :
       Finish(c1, "Inventory", o, o.ret # "raise", fails2,
              IF o.ret = "raise" THEN "Exception" ELSE "Added")
  /\ req' = [op |-> "add_stock", mat |-> i_mat, qty |-> i_qty]
  /\ nextId' = nextId + 1
  /\ UNCHANGED sessions
  /\ batch_rows' = <<>>
  /\ grouped' = {}

\* A run that calls no data helper (a tab is opened): the top of the script
\* only, the fetches fails1 failing.
Render(fails1) ==
  /\ \E c1 \in {Fill(cache, sheets, fails1)} :
       Finish(c1, "WorkLogs", NoHelper(sheets["WorkLogs"]), FALSE, {}, "")
  /\ req' = [op |-> "render", fails |-> fails1]
  /\ batch_rows' = <<>>
  /\ grouped' = {}
  /\ UNCHANGED <<nextId, sessions>>

\* st.cache_resource holds the client of get_connection once a run got one
\* (line 29): no run has yet when nothing ran or every run was halted.
Connected == req.op \notin {"start", "halt"} \/ cache # NoCache

\* A run whose get_connection fails (lines 30-42, called at line 50 outside
\* the try of get_data): st.error and st.stop() end the run at its first
\* fetch.
ConnectionError ==
  /\ ~Connected
  /\ req' = [op |-> "halt"]
  /\ ret' = "stop"
  /\ shown' = "Connection Error"
  /\ calls' = <<>>
  /\ batch_rows' = <<>>
  /\ grouped' = {}
  /\ UNCHANGED <<sheets, cache, stale, workers, current_stock, metrics, nextId, sessions>>

----------------------------------------------------------------------------
(* View & Manage, Installation Logs (lines 462-589).                       *)

\* Series.str.contains(q, case=False) on the cell texts and the search
\* texts used.
ContainsCI(text, q) ==
  \/ text = q
  \/ q = "box" /\ text \in {"1 Phase Box", "DTR Box"}
  \/ q = "cable" /\ text \in {"Cable", " Cable", "Cable "}

\* The order of the dates used (the comparisons of line 492).
DateOrd(d) == CASE d = "d0" -> 0 [] d = "d1" -> 1 [] d = "d2" -> 2 [] OTHER -> 3

\* id_col (line 497)
IdCol(df) ==
  IF IndexOf(df.columns, "SC No/ DTR Code") # 0 THEN "SC No/ DTR Code" ELSE df.columns[3]

\* No filter set: the state of the filter widgets when the view opens.
NoFilter ==
  [sel_loc |-> "All", sel_worker |-> "All", sel_date |-> <<>>, sel_mat |-> "",
   sel_dtr |-> "", sel_box |-> "", sel_ss |-> ""]

\* filtered_df (lines 486-503): the rows of df that pass the filters flt.
FilteredRows(df, flt) ==
  SelectSeq(df.rows, LAMBDA r :
    /\ flt.sel_loc # "All" => r["Site"] = flt.sel_loc
    /\ flt.sel_worker # "All" => r["Worker"] = flt.sel_worker
    /\ Len(flt.sel_date) = 2 =>
         /\ DateOrd(r["Date"]) >= DateOrd(flt.sel_date[1])
         /\ DateOrd(r["Date"]) <= DateOrd(flt.sel_date[2])
    /\ flt.sel_mat # "" => ContainsCI(r["Material"], flt.sel_mat)
    /\ flt.sel_dtr # "" => ContainsCI(r[IdCol(df)], flt.sel_dtr)
    /\ (flt.sel_box # "" /\ IndexOf(df.columns, "DTR_Box_No") # 0)
         => ContainsCI(r["DTR_Box_No"], flt.sel_box)
    /\ (flt.sel_ss # "" /\ IndexOf(df.columns, "Transformer_SS_No") # 0)
         => ContainsCI(r["Transformer_SS_No"], flt.sel_ss))

\* A group_cols of the event alone: date, asset id and worker.
GroupColsEvent(df) == <<"Date", IdCol(df), "Worker">>

\* group_cols (lines 510-515) and the key of a row under them.
GroupCols(df) ==
  <<"Date", IdCol(df), "Worker">>
    \o (IF IndexOf(df.columns, "Transformer_SS_No") # 0 THEN <<"Transformer_SS_No">> ELSE <<>>)
    \o (IF IndexOf(df.columns, "DTR_Box_No") # 0 THEN <<"DTR_Box_No">> ELSE <<>>)
GroupKey(df, r) == List([k \in 1..Len(GroupCols(df)) |-> r[GroupCols(df)[k]]])

\* The 'ID' cell of a group of `grouped` (lines 521-524): the ids of the
\* filtered rows with key g, in frame order.
GroupIds(df, rows, g) ==
  LET mine == SelectSeq(rows, LAMBDA r : GroupKey(df, r) = g)
  IN List([i \in 1..Len(mine) |-> mine[i]["ID"]])

\* filtered_df.groupby(group_cols).agg(...) (lines 521-524) as the fold over
\* the filtered rows: a row joins the group of its key, or opens one, its
\* ItemDesc (line 507) joined with ", " and its ID appended.  The result is
\* the set of the rows of `grouped`; their order (sorted by key) is left out.
RECURSIVE GroupFold(_, _, _)
GroupFold(df, rows, acc) ==
  IF rows = <<>> THEN acc
  ELSE LET r == Head(rows)
           key == GroupKey(df, r)
           ItemDesc == r["Material"] \o " (" \o r["Qty"] \o ")"
           j == IF \E k \in 1..Len(acc) : acc[k].key = key
                  THEN CHOOSE k \in 1..Len(acc) : acc[k].key = key ELSE 0
       IN GroupFold(df, Tail(rows),
            IF j = 0 THEN Append(acc, [key |-> key, ItemDesc |-> ItemDesc, ID |-> <<r["ID"]>>])
            ELSE [acc EXCEPT ![j] = [key |-> key,
                                     ItemDesc |-> acc[j].ItemDesc \o ", " \o ItemDesc,
                                     ID |-> Append(acc[j].ID, r["ID"])]])

Consolidated(df, rows) ==
  LET acc == GroupFold(df, rows, <<>>) IN {acc[k] : k \in 1..Len(acc)}

\* A run that sets the filters of the Installation Logs view to flt (lines
\* 462-537): the top of the script, the filters and the consolidation.
ViewLogs(flt, fails1) ==
  /\ \E c1 \in {Fill(cache, sheets, fails1)} :
     \E df \in {c1["WorkLogs"]} :
       /\ flt.sel_loc \in {"All"} \cup {df.rows[i]["Site"] : i \in 1..Len(df.rows)}
       /\ flt.sel_worker \in {"All"} \cup {df.rows[i]["Worker"] : i \in 1..Len(df.rows)}
       /\ Finish(c1, "WorkLogs", NoHelper(sheets["WorkLogs"]), FALSE, {}, "")
       /\ grouped' = IF df.rows = <<>> THEN {} ELSE Consolidated(df, FilteredRows(df, flt))
  /\ req' = [op |-> "view_logs", flt |-> flt]
  /\ batch_rows' = <<>>
  /\ UNCHANGED <<nextId, sessions>>

RECURSIVE Flatten(_)
Flatten(ss) == IF ss = <<>> THEN <<>> ELSE Head(ss) \o Flatten(Tail(ss))

\* "Delete N Work Log(s)" (lines 541-548) with the filters flt and the
\* displayed groups sel selected, in selection order; the failing remote
\* call is one of fs.
DeleteGroups(flt, sel, fs, fails1, fails2) ==
  \E c1 \in {Fill(cache, sheets, fails1)} :
  \E df \in {c1["WorkLogs"]} :
  \E rows \in {FilteredRows(df, flt)} :
     /\ df.rows # <<>>
     /\ rows # <<>>
     /\ flt.sel_loc \in {"All"} \cup {df.rows[i]["Site"] : i \in 1..Len(df.rows)}
     /\ flt.sel_worker \in {"All"} \cup {df.rows[i]["Worker"] : i \in 1..Len(df.rows)}
     /\ sel # <<>>
     /\ \A k \in 1..Len(sel) : \E i \in 1..Len(rows) : GroupKey(df, rows[i]) = sel[k]
     /\ \A k, l \in 1..Len(sel) : sel[k] = sel[l] => k = l
     /\ \E sel_wl_ids \in {Flatten(List([k \in 1..Len(sel) |-> GroupIds(df, rows, sel[k])]))} :
        \E last \in {1 + Len(sel_wl_ids) + Len(RowsToDelete(sheets["WorkLogs"], sel_wl_ids))} :
        \E f \in fs \cap (0..last) :
        \E o \in {bulk_delete_rows(sheets["WorkLogs"], sel_wl_ids, f)} :
          /\ Finish(c1, "WorkLogs", o, o.ret = "True", fails2,
                    IF o.ret = "raise" THEN "Exception" ELSE o.shown)
          /\ req' = [op |-> "delete_groups", flt |-> flt, groups |-> sel, ids |-> sel_wl_ids]
     /\ batch_rows' = <<>>
     /\ grouped' = {}
     /\ UNCHANGED <<nextId, sessions>>

\* The label of a row in "Select Record to Edit" (line 555).
Label(df, r) == r["Date"] \o " | " \o r[IdCol(df)] \o " (" \o r["Material"] \o ")"

\* The record st.selectbox returns for the label of the i-th filtered row
\* (lines 555-556): the first row with that label.
SelRow(df, rows, i) ==
  rows[CHOOSE j \in 1..Len(rows) :
         /\ Label(df, rows[j]) = Label(df, rows[i])
         /\ \A k \in 1..(j - 1) : Label(df, rows[k]) # Label(df, rows[i])]

\* u_data (lines 574-583): typed maps the fields the user retypes (among
\* n_dtr, n_mat, n_qty) to what is typed, the other fields stay as the form
\* shows them.
u_data(df, ws, sel_row, typed) ==
  LET w_idx == IF IndexOf(ws, sel_row["Worker"]) # 0 THEN IndexOf(ws, sel_row["Worker"]) ELSE 1
  IN Dict([col \in {"Date", IdCol(df), "Transformer_SS_No", "DTR_Box_No", "Worker",
                    "Material", "Qty", "Synced"} |->
             CASE col = "Date" -> sel_row["Date"]
               [] col = IdCol(df) ->
                    IF "n_dtr" \in DOMAIN typed THEN typed["n_dtr"] ELSE sel_row[IdCol(df)]
               [] col = "Transformer_SS_No" -> sel_row["Transformer_SS_No"]
               [] col = "DTR_Box_No" -> sel_row["DTR_Box_No"]
               [] col = "Worker" -> ws[w_idx]
               [] col = "Material" ->
                    IF "n_mat" \in DOMAIN typed THEN typed["n_mat"] ELSE sel_row["Material"]
               [] col = "Qty" ->
                    IF "n_qty" \in DOMAIN typed THEN NumStr(typed["n_qty"])
                    ELSE NumStr(QtyOf(sel_row["Qty"]))
               [] OTHER -> "FALSE"])

\* "Save Material Changes" (lines 558-585) on the record with the label of
\* the i-th filtered row.
EditWorkLog(flt, i, typed, f, fails1, fails2) ==
  \E c1 \in {Fill(cache, sheets, fails1)} :
  \E df \in {c1["WorkLogs"]} :
  \E rows \in {FilteredRows(df, flt)} :
     /\ df.rows # <<>>
     /\ i \in 1..Len(rows)
     /\ f <= 4
     /\ \E sel_row \in {SelRow(df, rows, i)} :
          /\ sel_row["Qty"] # ""
          /\ \E data \in {u_data(df, get_worker_list(c1["Workers"]), sel_row, typed)} :
             \E o \in {update_row_data(sheets["WorkLogs"], sel_row["ID"], data, f)} :
               /\ Finish(c1, "WorkLogs", o, o.ret = "True", fails2,
                         IF o.ret = "raise" THEN "Exception" ELSE o.shown)
               /\ req' = [op |-> "edit_wl", id |-> sel_row["ID"], data |-> data]
     /\ batch_rows' = <<>>
     /\ grouped' = {}
     /\ UNCHANGED <<nextId, sessions>>

----------------------------------------------------------------------------
(* Inventory logs (lines 623-647).                                         *)

\* The materials the select boxes offer when no Settings are read (line 131).
materials_list == <<"Cable", "Lugs">>

\* The label of a record in "Select Record" (line 629).
InventoryLabel(r) == r["Date"] \o " | " \o r["Material"] \o " (" \o r["Qty"] \o ")"

\* The record st.selectbox returns for the label of the i-th row (lines
\* 630-633): the first row with that label.
SelInventoryRow(rows, i) ==
  rows[CHOOSE j \in 1..Len(rows) :
         /\ InventoryLabel(rows[j]) = InventoryLabel(rows[i])
         /\ \A k \in 1..(j - 1) : InventoryLabel(rows[k]) # InventoryLabel(rows[i])]

\* "Save Changes" of edit_inv_form (lines 634-643) with the quantity n_qty
\* typed, the date and the material left as the form shows them.
EditInventory(i, n_qty, f, fails1, fails2) ==
  \E c1 \in {Fill(cache, sheets, fails1)} :
  \E df_inv \in {c1["Inventory"]} :
     /\ df_inv.rows # <<>>
     /\ i \in 1..Len(df_inv.rows)
     /\ f <= 4
     /\ \E sel_row \in {SelInventoryRow(df_inv.rows, i)} :
          /\ sel_row["Qty"] # ""
          /\ \E data \in {[Date |-> sel_row["Date"],
                            Material |-> IF IndexOf(materials_list, sel_row["Material"]) # 0
                                           THEN sel_row["Material"] ELSE materials_list[1],
                            Qty |-> NumStr(n_qty),
                            Synced |-> "FALSE"]} :
             \E o \in {update_row_data(sheets["Inventory"], sel_row["ID"], data, f)} :
               /\ Finish(c1, "Inventory", o, o.ret = "True", fails2,
                         IF o.ret = "raise" THEN "Exception" ELSE o.shown)
               /\ req' = [op |-> "edit_inv", id |-> sel_row["ID"], data |-> data]
     /\ batch_rows' = <<>>
     /\ grouped' = {}
     /\ UNCHANGED <<nextId, sessions>>

\* "Delete Record" (lines 645-647) on the record with the label of the i-th
\* row.
DeleteInventory(i, f, fails1, fails2) ==
  \E c1 \in {Fill(cache, sheets, fails1)} :
  \E df_inv \in {c1["Inventory"]} :
     /\ df_inv.rows # <<>>
     /\ i \in 1..Len(df_inv.rows)
     /\ \E sel_row \in {SelInventoryRow(df_inv.rows, i)} :
          /\ sel_row["Qty"] # ""
          /\ \E o \in {bulk_delete_rows(sheets["Inventory"], <<sel_row["ID"]>>, f)} :
               /\ Finish(c1, "Inventory", o, o.ret = "True", fails2,
                         IF o.ret = "raise" THEN "Exception" ELSE o.shown)
               /\ req' = [op |-> "delete_inv", id |-> sel_row["ID"]]
     /\ batch_rows' = <<>>
     /\ grouped' = {}
     /\ UNCHANGED <<nextId, sessions>>

----------------------------------------------------------------------------
(* Workers tab (lines 677-693).                                            *)

\* "Add" of the add_worker form (lines 680-686) with the name new_w.
AddWorker(new_w, f, fails1, fails2) ==
  /\ Len(sheets["Workers"]) - 1 + 1 <= MaxRows
  /\ \E c1 \in {Fill(cache, sheets, fails1)} :
     \E o \in {IF new_w # "" /\ IndexOf(get_worker_list(c1["Workers"]), new_w) = 0
                 THEN save_row(sheets["Workers"], [Name |-> new_w, Synced |-> "FALSE"], f)
                 ELSE NoHelper(sheets["Workers"])} :
       Finish(c1, "Workers", o, o.ret = "None", fails2,
              IF o.ret = "raise" THEN "Exception" ELSE "")
  /\ req' = [op |-> "add_worker", name |-> new_w]
  /\ batch_rows' = <<>>
  /\ grouped' = {}
  /\ UNCHANGED <<nextId, sessions>>

\* The frame st.data_editor returns (line 690, num_rows="dynamic", column
\* Synced disabled) when the user deletes the rows at the positions ed.del
\* of the displayed frame, retypes the Name of the rows in DOMAIN ed.ren and
\* adds one row per name of ed.add; a cell the user cannot fill is None,
\* which the worksheet stores as the empty cell.
NoEdit == [del |-> {}, ren |-> <<>>, add |-> <<>>]

Edited(df, ed) ==
  [columns |-> df.columns,
   rows |-> SelectSeq(List([i \in 1..Len(df.rows) |->
                         IF i \in ed.del THEN <<>>
                         ELSE IF i \in DOMAIN ed.ren
                           THEN Dict([df.rows[i] EXCEPT !["Name"] = ed.ren[i]])
                         ELSE df.rows[i]]),
                      LAMBDA r : r # <<>>)
            \o List([k \in 1..Len(ed.add) |->
                      Dict([c \in {df.columns[j] : j \in 1..Len(df.columns)} |->
                              IF c = "Name" THEN ed.add[k] ELSE ""])])]

\* "Save List" (lines 688-693) after the edits ed in the editor.
SaveList(ed, f, fails1, fails2) ==
  \E c1 \in {Fill(cache, sheets, fails1)} :
     /\ c1["Workers"].rows # <<>>
     /\ ed.del \subseteq 1..Len(c1["Workers"].rows)
     /\ DOMAIN ed.ren \subseteq 1..Len(c1["Workers"].rows)
     /\ \E edited \in {Edited(c1["Workers"], ed)} :
          /\ Len(edited.rows) <= MaxRows
          /\ \E o \in {update_worker_registry(sheets["Workers"], edited, f)} :
               Finish(c1, "Workers", o, o.ret # "raise", fails2,
                      IF o.ret = "raise" THEN "Exception" ELSE "")
     /\ req' = [op |-> "save_list", ed |-> ed]
     /\ batch_rows' = <<>>
     /\ grouped' = {}
     /\ UNCHANGED <<nextId, sessions>>

----------------------------------------------------------------------------
(* Overlapping runs.  Every browser session runs the script in a thread of *)
(* its own against the one store and the one st.cache_data; a data helper  *)
(* is a sequence of remote calls, and the runs of other sessions may take  *)
(* steps between two of them.  A step is one remote call that reads or     *)
(* writes the rows, with the local code up to the next one.                *)

\* A step that leaves session c inside the helper, in the position s.
Pending(c, s) ==
  /\ sessions' = [sessions EXCEPT ![c] = s]
  /\ UNCHANGED <<workers, current_stock, metrics, batch_rows, grouped, req, ret, shown, calls, nextId>>

\* "Save Material Changes" (lines 558-585) up to ws.find (lines 89-94): the
\* top of the script, the form, the open and the locate.
EditFind(c, i, typed) ==
  /\ sessions[c] = Idle
  /\ \E c1 \in {Fill(cache, sheets, {})} :
     \E df \in {c1["WorkLogs"]} :
     \E rows \in {FilteredRows(df, NoFilter)} :
       /\ df.rows # <<>>
       /\ i \in 1..Len(rows)
       /\ \E sel_row \in {SelRow(df, rows, i)} :
            /\ sel_row["Qty"] # ""
            /\ \E data \in {u_data(df, get_worker_list(c1["Workers"]), sel_row, typed)} :
               \E cell \in {find(sheets["WorkLogs"], sel_row["ID"])} :
                 IF cell[1] = 0
                   THEN /\ Finish(c1, "WorkLogs",
                                  Out(sheets["WorkLogs"], FALSE, "False", "Update Error",
                                      <<Call("open", 0, TRUE), Call("find", 0, TRUE)>>),
                                  FALSE, {}, "Update Error")
                        /\ req' = [op |-> "edit_wl", id |-> sel_row["ID"], data |-> data]
                        /\ batch_rows' = <<>>
                        /\ grouped' = {}
                        /\ UNCHANGED <<nextId, sessions>>
                   ELSE /\ Pending(c, [pc |-> "found", c1 |-> c1, id |-> sel_row["ID"],
                                       data |-> data, r |-> cell[1]])
                        /\ cache' = c1
                        /\ UNCHANGED <<sheets, stale>>

\* ws.row_values(1) and the updates built from it (lines 95-102).
EditRowValues(c) ==
  /\ sessions[c].pc = "found"
  /\ \E s \in {sessions[c]} :
     \E updates \in {Updates(row_values1(sheets["WorkLogs"]), s.r, s.data)} :
       IF updates = {}
         THEN /\ Finish(s.c1, "WorkLogs",
                        Out(sheets["WorkLogs"], FALSE, "False", "",
                            <<Call("open", 0, TRUE), Call("find", 0, TRUE),
                              Call("row_values", 1, TRUE)>>),
                        FALSE, {}, "")
              /\ req' = [op |-> "edit_wl", id |-> s.id, data |-> s.data]
              /\ batch_rows' = <<>>
              /\ grouped' = {}
              /\ sessions' = [sessions EXCEPT ![c] = Idle]
              /\ UNCHANGED nextId
         ELSE /\ Pending(c, [pc |-> "write", c1 |-> s.c1, id |-> s.id, data |-> s.data,
                             r |-> s.r, updates |-> updates])
              /\ UNCHANGED <<sheets, cache, stale>>

\* ws.batch_update(updates), clear_cache() and the rerun (lines 103-106, 585).
EditBatchUpdate(c) ==
  /\ sessions[c].pc = "write"
  /\ \E s \in {sessions[c]} :
       /\ Finish(s.c1, "WorkLogs",
                 Out(batch_update(sheets["WorkLogs"], s.updates), TRUE, "True", "",
                     <<Call("open", 0, TRUE), Call("find", 0, TRUE),
                       Call("row_values", 1, TRUE), Call("batch_update", s.r, TRUE)>>),
                 TRUE, {}, "")
       /\ req' = [op |-> "edit_wl", id |-> s.id, data |-> s.data]
  /\ batch_rows' = <<>>
  /\ grouped' = {}
  /\ sessions' = [sessions EXCEPT ![c] = Idle]
  /\ UNCHANGED nextId

\* bulk_delete_rows after the findall of the k-th id (lines 76-79): the next
\* findall, or the sorted rows, or nothing to delete (lines 82-83).
AfterFindall(c, c1, ids, k, cells) ==
  IF k < Len(ids)
    THEN /\ Pending(c, [pc |-> "findall", c1 |-> c1, ids |-> ids, k |-> k, cells |-> cells])
         /\ cache' = c1
         /\ UNCHANGED <<sheets, stale>>
  ELSE IF cells = {}
    THEN /\ Finish(c1, "WorkLogs", Out(sheets["WorkLogs"], TRUE, "True", "", <<>>), TRUE, {}, "")
         /\ req' = [op |-> "delete_groups", ids |-> ids]
         /\ batch_rows' = <<>>
         /\ grouped' = {}
         /\ sessions' = [sessions EXCEPT ![c] = Idle]
         /\ UNCHANGED nextId
  ELSE /\ Pending(c, [pc |-> "delete", c1 |-> c1, ids |-> ids,
                      rows_to_delete |-> SortDesc({x[1] : x \in cells})])
       /\ cache' = c1
       /\ UNCHANGED <<sheets, stale>>

\* "Delete Selected Installations" (lines 541-548) on the displayed group of
\* the i-th row, up to the first ws.findall (lines 71-77).
DeleteFindFirst(c, i) ==
  /\ sessions[c] = Idle
  /\ \E c1 \in {Fill(cache, sheets, {})} :
     \E df \in {c1["WorkLogs"]} :
     \E rows \in {FilteredRows(df, NoFilter)} :
       /\ df.rows # <<>>
       /\ i \in 1..Len(rows)
       /\ \A j \in 1..(i - 1) : GroupKey(df, rows[j]) # GroupKey(df, rows[i])
       /\ \E ids \in {GroupIds(df, rows, GroupKey(df, rows[i]))} :
            AfterFindall(c, c1, ids, 1, findall(sheets["WorkLogs"], ids[1]))

\* The next ws.findall (line 77).
DeleteFindNext(c) ==
  /\ sessions[c].pc = "findall"
  /\ \E s \in {sessions[c]} :
       AfterFindall(c, s.c1, s.ids, s.k + 1,
                    s.cells \cup findall(sheets["WorkLogs"], s.ids[s.k + 1]))

\* The next ws.delete_rows(r) (lines 80-81); after the last one clear_cache()
\* and the rerun (lines 82-83, 548).
DeleteRow(c) ==
  /\ sessions[c].pc = "delete"
  /\ \E s \in {sessions[c]} :
     \E grid \in {delete_rows(sheets["WorkLogs"], Head(s.rows_to_delete))} :
       IF Tail(s.rows_to_delete) = <<>>
         THEN /\ Finish(s.c1, "WorkLogs", Out(grid, TRUE, "True", "", <<>>), TRUE, {}, "")
              /\ req' = [op |-> "delete_groups", ids |-> s.ids]
              /\ batch_rows' = <<>>
              /\ grouped' = {}
              /\ sessions' = [sessions EXCEPT ![c] = Idle]
              /\ UNCHANGED nextId
         ELSE /\ sheets' = [sheets EXCEPT !["WorkLogs"] = grid]
              /\ stale' = IF grid # sheets["WorkLogs"] THEN stale \cup {"WorkLogs"} ELSE stale
              /\ sessions' = [sessions EXCEPT ![c] =
                                [s EXCEPT !.rows_to_delete = Tail(s.rows_to_delete)]]
              /\ UNCHANGED <<cache, workers, current_stock, metrics, batch_rows, grouped, req, ret,
                             shown, calls, nextId>>

----------------------------------------------------------------------------
(* The state after the application starts on a store that holds the header *)
(* rows only.                                                              *)

Init ==
  /\ sheets = [t \in Tables |-> <<HeaderOf(t)>>]
  /\ cache = NoCache
  /\ stale = {}
  /\ workers = <<"General">>
  /\ current_stock = <<>>
  /\ metrics = <<>>
  /\ batch_rows = <<>>
  /\ grouped = {}
  /\ req = [op |-> "start"]
  /\ ret = ""
  /\ shown = ""
  /\ calls = <<>>
  /\ nextId = 0
  /\ sessions = NoSessions

----------------------------------------------------------------------------
(* SpecLedger: the ledger and the installation-log write path.  The store  *)
(* starts with rows entered in the spreadsheet by hand (a padded material  *)
(* name, an empty Qty), the users submit installation logs and add stock.  *)

LegacyInventory ==
  {<<>>, <<<<"L1", "d0", " Cable", "", "Inward", "TRUE">>>>}

LegacyWorkLogs ==
  {<<>>,
   <<<<"L2", "d0", "S0", "", "", "", "Site A", "General", "Cable ", "", "", "", "TRUE">>>>,
   <<<<"L2", "d0", "S0", "", "", "", "Site A", "General", " Lugs ", "3", "", "", "TRUE">>>>}

\* The state after the first script run on such a store.
InitLedger ==
  /\ \E inv \in LegacyInventory, wl \in LegacyWorkLogs :
        sheets = [t \in Tables |->
                    IF t = "Inventory" THEN <<InventoryHeader>> \o inv
                    ELSE IF t = "WorkLogs" THEN <<WorkLogsHeader>> \o wl
                    ELSE <<WorkersHeader>>]
  /\ cache = Fill(NoCache, sheets, {})
  /\ stale = {}
  /\ workers = get_worker_list(cache["Workers"])
  /\ current_stock = calculate_stock(cache["Inventory"], cache["WorkLogs"])
  /\ metrics = StockOverview(current_stock)
  /\ batch_rows = <<>>
  /\ grouped = {}
  /\ req = [op |-> "start"]
  /\ ret = ""
  /\ shown = ""
  /\ calls = <<>>
  /\ nextId = 0
  /\ sessions = NoSessions

\* The Submit Log form with installation type T, cable c and lugs l.
Form(T, c, l) ==
  [meter_type |-> T, date |-> "d1", main_id |-> "S1", dtr_box |-> "", ss_no |-> "",
   capacity |-> "", site |-> "Site A", worker |-> "General", qty_cable |-> c,
   qty_lugs |-> l, lat |-> "", long |-> ""]

LedgerSubmitLog == \E c \in {0, 1} : SubmitLog(Form("1 Phase", c, 0), 0, {}, {})
LedgerAddStock ==
  \E x \in {<<"Cable", 0>>, <<"Cable", 10>>, <<"Lugs", 10>>} :
     AddStock("d1", x[1], x[2], 0, {}, {})

NextLedger == LedgerSubmitLog \/ LedgerAddStock \/ TtlExpire

SpecLedger == InitLedger /\ [][NextLedger]_vars

----------------------------------------------------------------------------
(* SpecSubmit: installation logs submitted to an empty store, any remote   *)
(* call of the submission failing.                                         *)

SubmitSubmitLog ==
  \E T \in {"1 Phase", "DTR"}, c \in {0, 10}, l \in {0, 1}, f \in 0..3 :
     SubmitLog(Form(T, c, l), f, {}, {})
SubmitRefresh == RefreshData({})

NextSubmit == SubmitSubmitLog \/ SubmitRefresh \/ TtlExpire

SpecSubmit == Init /\ [][NextSubmit]_vars

----------------------------------------------------------------------------
(* SpecView: installation logs are submitted, listed under a material      *)
(* filter, deleted by group with any remote call of the delete failing,    *)
(* and their quantities edited.  The SC No field takes any text, the id of *)
(* a record included.                                                      *)

ViewFilters == {NoFilter, [NoFilter EXCEPT !.sel_mat = "cable"]}

\* The groups the view can display.
ViewGroups ==
  LET df == Fill(cache, sheets, {})["WorkLogs"]
  IN {GroupKey(df, df.rows[i]) : i \in 1..Len(df.rows)}

\* The failing call of a delete: none, the open, a findall or a delete_rows.
DeleteFailures == 0..(1 + 2 * MaxRows)

ViewSubmitLog ==
  \E x \in {<<1, "S1">>, <<0, Uuid(1)>>} :
     SubmitLog([Form("1 Phase", x[1], 0) EXCEPT !.main_id = x[2]], 0, {}, {})
ViewDeleteGroups ==
  \E flt \in ViewFilters, g1 \in ViewGroups :
    \E sel \in {<<g1>>} \cup {<<g1, g2>> : g2 \in ViewGroups \ {g1}} :
      DeleteGroups(flt, sel, DeleteFailures, {}, {})
ViewEditWorkLog == \E i \in 1..MaxRows : EditWorkLog(NoFilter, i, [n_qty |-> 2], 0, {}, {})

NextView == ViewSubmitLog \/ ViewDeleteGroups \/ ViewEditWorkLog

SpecView == Init /\ [][NextView]_vars

----------------------------------------------------------------------------
(* SpecEdit: installation logs are submitted and their records edited, the *)
(* batch_update of an edit failing or not.  The DTR Code field takes any   *)
(* text, the id of a record included.                                      *)

EditSubmitLog == \E c \in {0, 1} : SubmitLog(Form("1 Phase", c, 0), 0, {}, {})
EditEditWorkLog ==
  \E i \in 1..MaxRows, typed \in {[n_dtr |-> Uuid(2)], [n_qty |-> 2]}, f \in {0, 4} :
    EditWorkLog(NoFilter, i, typed, f, {}, {})

NextEdit == EditSubmitLog \/ EditEditWorkLog

SpecEdit == Init /\ [][NextEdit]_vars

----------------------------------------------------------------------------
(* SpecWorkers: workers are added and the roster is saved from the editor, *)
(* a fetch of the Workers worksheet or a remote call of the write failing. *)

WorkerNames == {"", "Ravi", "Sita"}
FetchFailures == {{}, {"Workers"}}

WorkersAddWorker ==
  \E new_w \in WorkerNames, f \in {0, 3}, fails1 \in FetchFailures, fails2 \in FetchFailures :
     AddWorker(new_w, f, fails1, fails2)
WorkersSaveList ==
  \E del \in SUBSET (1..MaxRows), f \in {0, 4}, fails2 \in FetchFailures :
     SaveList([NoEdit EXCEPT !.del = del], f, {}, fails2)

NextWorkers == WorkersAddWorker \/ WorkersSaveList \/ TtlExpire

SpecWorkers == Init /\ [][NextWorkers]_vars

----------------------------------------------------------------------------
(* SpecQty: quantities are entered in the create forms and retyped in the  *)
(* edit forms, records are deleted; every remote call succeeds.            *)

TypedQty == {0 - 1, 2}

QtySubmitLog == \E c \in {0, 1} : SubmitLog(Form("1 Phase", c, 0), 0, {}, {})
QtyAddStock == \E q \in {5} : AddStock("d1", "Cable", q, 0, {}, {})
QtyEditWorkLog == \E i \in 1..MaxRows, q \in TypedQty : EditWorkLog(NoFilter, i, [n_qty |-> q], 0, {}, {})
QtyEditInventory == \E i \in 1..MaxRows, q \in TypedQty : EditInventory(i, q, 0, {}, {})
QtyDeleteInventory == \E i \in 1..MaxRows : DeleteInventory(i, 0, {}, {})

NextQty ==
  QtySubmitLog \/ QtyAddStock \/ QtyEditWorkLog \/ QtyEditInventory \/ QtyDeleteInventory

SpecQty == Init /\ [][NextQty]_vars

----------------------------------------------------------------------------
(* SpecUpdaters: two sessions edit work-log records while their runs       *)
(* overlap; records are submitted, none is deleted.                        *)

UpdatersSubmitLog == SubmitLog(Form("1 Phase", 1, 0), 0, {}, {})
UpdatersEditFind ==
  \E c \in Sessions, i \in 1..MaxRows, typed \in {[n_qty |-> 2], [n_dtr |-> Uuid(2)]} :
     EditFind(c, i, typed)
UpdatersEditRowValues == \E c \in Sessions : EditRowValues(c)
UpdatersEditBatchUpdate == \E c \in Sessions : EditBatchUpdate(c)

NextUpdaters ==
  UpdatersSubmitLog \/ UpdatersEditFind \/ UpdatersEditRowValues \/ UpdatersEditBatchUpdate

SpecUpdaters == Init /\ [][NextUpdaters]_vars

----------------------------------------------------------------------------
(* SpecGroups: DTR installations of one day, one asset and one worker are  *)
(* logged with different box numbers and viewed under different filters.   *)

GroupsForms ==
  {[Form("DTR", c, 0) EXCEPT !.dtr_box = b] : c \in {0, 1}, b \in {"B1", "B2"}}
GroupsFilters == {NoFilter, [NoFilter EXCEPT !.sel_box = "B1"], [NoFilter EXCEPT !.sel_mat = "cable"]}

GroupsSubmitLog == \E w \in GroupsForms : SubmitLog(w, 0, {}, {})
GroupsViewLogs == \E flt \in GroupsFilters : ViewLogs(flt, {})

NextGroups == GroupsSubmitLog \/ GroupsViewLogs \/ TtlExpire

SpecGroups == Init /\ [][NextGroups]_vars

----------------------------------------------------------------------------
(* SpecRace: session A edits the second work-log record and session B      *)
(* deletes the first displayed group while their runs overlap, and records *)
(* are submitted meanwhile; no id is typed into a field.                    *)

RaceSubmitLog ==
  \E id \in {"S1", "S2"} : SubmitLog([Form("1 Phase", 0, 0) EXCEPT !.main_id = id], 0, {}, {})
RaceEditFind == EditFind("A", 2, [n_qty |-> 2])
RaceEditRowValues == EditRowValues("A")
RaceEditBatchUpdate == EditBatchUpdate("A")
RaceDeleteFindFirst == DeleteFindFirst("B", 1)
RaceDeleteFindNext == DeleteFindNext("B")
RaceDeleteRow == DeleteRow("B")

NextRace ==
  \/ RaceSubmitLog
  \/ RaceEditFind \/ RaceEditRowValues \/ RaceEditBatchUpdate
  \/ RaceDeleteFindFirst \/ RaceDeleteFindNext \/ RaceDeleteRow

SpecRace == Init /\ [][NextRace]_vars

----------------------------------------------------------------------------
(* SpecRoster: the roster is kept from the Workers tab alone, every remote *)
(* call succeeding.  The store starts with a roster the synchronisation    *)
(* service has already visited (Synced = "TRUE"); the users add workers    *)
(* and delete, retype and add rows in the editor before "Save List".       *)

SyncedRosters ==
  {<<>>, <<<<"Ravi", "TRUE">>>>, <<<<"Ravi", "TRUE">>, <<"Sita", "FALSE">>>>}

InitRoster ==
  /\ \E ws \in SyncedRosters :
        sheets = [t \in Tables |->
                    IF t = "Workers" THEN <<WorkersHeader>> \o ws ELSE <<HeaderOf(t)>>]
  /\ cache = Fill(NoCache, sheets, {})
  /\ stale = {}
  /\ workers = get_worker_list(cache["Workers"])
  /\ current_stock = calculate_stock(cache["Inventory"], cache["WorkLogs"])
  /\ metrics = StockOverview(current_stock)
  /\ batch_rows = <<>>
  /\ grouped = {}
  /\ req = [op |-> "start"]
  /\ ret = ""
  /\ shown = ""
  /\ calls = <<>>
  /\ nextId = 0
  /\ sessions = NoSessions

RosterNames == {"Ravi", "Sita", "Mina"}
RosterEdits ==
  {[NoEdit EXCEPT !.del = {i}] : i \in 1..MaxRows}
    \cup {[NoEdit EXCEPT !.ren = (i :> n)] : i \in 1..MaxRows, n \in RosterNames}
    \cup {[NoEdit EXCEPT !.add = <<n>>] : n \in RosterNames}

RosterAddWorker == \E new_w \in RosterNames : AddWorker(new_w, 0, {}, {})
RosterSaveList == \E ed \in RosterEdits : SaveList(ed, 0, {}, {})

NextRoster == RosterAddWorker \/ RosterSaveList \/ TtlExpire

SpecRoster == InitRoster /\ [][NextRoster]_vars

----------------------------------------------------------------------------
(* SpecFetch: the script is rendered while fetches fail, the cache expires *)
(* and stock is added; the first runs may fail to connect.                 *)

FetchRender == \E fails1 \in SUBSET {"Inventory", "Workers"} : Render(fails1)
FetchAddStock == \E q \in {1, 10}, fails2 \in {{}, {"Inventory"}} : AddStock("d1", "Cable", q, 0, {}, fails2)

NextFetch == FetchRender \/ FetchAddStock \/ TtlExpire \/ ConnectionError

SpecFetch == Init /\ [][NextFetch]_vars

----------------------------------------------------------------------------
(* Claims.                                                                 *)

DataRows(t) == get_all_records(sheets[t])
Col(t, name) == IndexOf(HeaderOf(t), name)

\* Sum of Qty over the records of material M (after trimming).
SumQty(rows, M) ==
  SeqSum([i \in 1..Len(rows) |->
            IF Strip(rows[i]["Material"]) = M THEN QtyOf(rows[i]["Qty"]) ELSE 0])
MaterialsOf(rows) == {Strip(rows[i]["Material"]) : i \in 1..Len(rows)}
StockGet(stock, M) ==
  IF \E i \in 1..Len(stock) : stock[i].item = M
    THEN stock[CHOOSE i \in 1..Len(stock) : stock[i].item = M].qty
    ELSE 0
LedgerOf(sh) ==
  calculate_stock(get_data(sh["Inventory"], FALSE), get_data(sh["WorkLogs"], FALSE))

C1_Maps ==
  LET stock == LedgerOf(sheets)
      inward == DataRows("Inventory")
      outward == DataRows("WorkLogs")
  IN /\ current_stock = stock
     /\ {stock[i].item : i \in 1..Len(stock)} = MaterialsOf(inward) \cup MaterialsOf(outward)
     /\ \A i, j \in 1..Len(stock) : stock[i].item = stock[j].item => i = j
     /\ \A i \in 1..Len(stock) :
          stock[i].qty = SumQty(inward, stock[i].item) - SumQty(outward, stock[i].item)

\* The rows (M, q) whose appending is tried on every table content.
C1_Rows ==
  {[Material |-> x[1], Qty |-> x[2]] :
     x \in {<<"Cable", "10">>, <<" Cable", "1">>, <<"Lugs", "">>, <<"Meter", "2">>}}

C1_Append ==
  LET df_in == get_data(sheets["Inventory"], FALSE)
      df_out == get_data(sheets["WorkLogs"], FALSE)
      before == calculate_stock(df_in, df_out)
      names == {before[i].item : i \in 1..Len(before)} \cup {"Cable", "Lugs", "Meter"}
  IN \A row \in C1_Rows :
       LET M == Strip(row["Material"])
           q == QtyOf(row["Qty"])
           more_in == calculate_stock([df_in EXCEPT !.rows = Append(@, row)], df_out)
           more_out == calculate_stock(df_in, [df_out EXCEPT !.rows = Append(@, row)])
       IN \A X \in names :
            /\ StockGet(more_in, X) = StockGet(before, X) + (IF X = M THEN q ELSE 0)
            /\ StockGet(more_out, X) = StockGet(before, X) - (IF X = M THEN q ELSE 0)

\* C1: the ledger maps every trimmed material name to the sum of its
\* Inventory quantities minus the sum of its WorkLogs quantities (an empty
\* Qty counting 0), and so appending one Inventory row (M, q) raises the
\* entry of M by q, appending one WorkLogs row (M, q) lowers it by q, and no
\* other entry changes.
C1_StockLedger == C1_Maps /\ C1_Append

\* A stock was added to a ledger that holds a material with inward rows,
\* outward rows and a row whose Qty is empty.
C1_Witness ==
  /\ req.op = "add_stock"
  /\ \E i \in 1..Len(DataRows("WorkLogs")) :
        /\ Strip(DataRows("WorkLogs")[i]["Material"]) = "Cable"
        /\ DataRows("WorkLogs")[i]["Qty"] = ""
  /\ SumQty(DataRows("WorkLogs"), "Cable") = 1
  /\ SumQty(DataRows("Inventory"), "Cable") = 10
  /\ StockGet(current_stock, "Cable") = 9

\* C2: a submission with installation type T, cable c and lugs l builds
\* 1 + [c > 0] + [l > 0] rows: the "T Box" row with quantity 1, a Cable row
\* with quantity c iff c > 0, a Lugs row with quantity l iff l > 0; the
\* rows agree outside ID, Material and Qty and their ids differ pairwise.
C2_BatchRows ==
  req.op = "submit_log" =>
    LET w == req.form
        b == batch_rows
        mat == Col("WorkLogs", "Material")
        qty == Col("WorkLogs", "Qty")
        With(m) == {i \in 1..Len(b) : b[i][mat] = m}
    IN /\ Len(b) = 1 + (IF w.qty_cable > 0 THEN 1 ELSE 0) + (IF w.qty_lugs > 0 THEN 1 ELSE 0)
       /\ b[1][mat] = (IF w.meter_type = "1 Phase" THEN "1 Phase Box" ELSE "DTR Box")
       /\ b[1][qty] = "1"
       /\ Cardinality(With("Cable")) = (IF w.qty_cable > 0 THEN 1 ELSE 0)
       /\ Cardinality(With("Lugs")) = (IF w.qty_lugs > 0 THEN 1 ELSE 0)
       /\ \A i \in With("Cable") : StrNum(b[i][qty]) = w.qty_cable
       /\ \A i \in With("Lugs") : StrNum(b[i][qty]) = w.qty_lugs
       /\ \A i \in 1..Len(b) : StrNum(b[i][qty]) > 0
       /\ \A i, j \in 1..Len(b) :
            /\ \A c \in (1..Len(WorkLogsHeader)) \ {1, mat, qty} : b[i][c] = b[j][c]
            /\ i # j => b[i][1] # b[j][1]
       /\ (w.meter_type = "1 Phase" /\ w.qty_cable = 10 /\ w.qty_lugs = 0)
            => /\ Len(b) = 2
               /\ <<b[1][mat], b[1][qty]>> = <<"1 Phase Box", "1">>
               /\ <<b[2][mat], b[2][qty]>> = <<"Cable", "10">>
       /\ ret = "None" =>
            SubSeq(sheets["WorkLogs"], Len(sheets["WorkLogs"]) - Len(b) + 1,
                   Len(sheets["WorkLogs"])) = b

\* The example of the claim: "1 Phase", cable 10, lugs 0 was submitted and
\* saved.
C2_Witness ==
  /\ req.op = "submit_log"
  /\ req.form.meter_type = "1 Phase" /\ req.form.qty_cable = 10 /\ req.form.qty_lugs = 0
  /\ ret = "None"
  /\ Len(batch_rows) = 2

C3_Attempt ==
  req.op = "submit_log" =>
    /\ Cardinality({i \in 1..Len(calls) : calls[i].api \in {"append_rows", "append_row"}}) <= 1
    /\ \A i \in 1..Len(calls) : calls[i].api \notin {"delete_rows", "clear", "batch_update"}
    /\ (\E i \in 1..Len(calls) : ~calls[i].ok) <=> (ret = "raise" /\ shown = "Save Failed")

C3_AllOrNone ==
  req'.op = "submit_log" =>
    \/ sheets'["WorkLogs"] = sheets["WorkLogs"]
    \/ sheets'["WorkLogs"] = sheets["WorkLogs"] \o batch_rows'

\* C3: the rows of one submission are appended by a single batch call, so
\* after an attempt WorkLogs holds all the rows built or none of them; a
\* failed call is caught and shown, with no retry and no compensating
\* delete.
C3_SingleBatch == [][C3_Attempt /\ C3_Attempt' /\ C3_AllOrNone]_vars

\* A submission of several rows failed in its append call and left WorkLogs
\* with the one row it held.
C3_Witness ==
  /\ req.op = "submit_log"
  /\ Len(batch_rows) >= 2
  /\ ret = "raise" /\ shown = "Save Failed"
  /\ Len(calls) = 2 /\ calls[2].api = "append_rows" /\ ~calls[2].ok
  /\ Len(sheets["WorkLogs"]) = 2

\* The records of a grid's data rows, each with the row it comes from.
RecordOf(grid, row) == Zip(grid[1], row, Len(grid[1]))

\* C4: deleting a consolidated row of the Installation Logs view removes
\* from WorkLogs every row that shares the group's key and no row outside
\* the group, whatever the filters under which the group is displayed.
C4_GroupDelete ==
  [][(req'.op = "delete_groups" /\ ret' = "True") =>
       LET grid == sheets["WorkLogs"]
           df == [columns |-> grid[1], rows |-> <<>>]
           Selected(row) ==
             \E k \in 1..Len(req'.groups) : GroupKey(df, RecordOf(grid, row)) = req'.groups[k]
       IN Tail(sheets'["WorkLogs"]) = SelectSeq(Tail(grid), LAMBDA row : ~Selected(row))]_vars

\* C5: an Add Worker submission whose name is already in the Workers
\* roster writes no row: the Workers table is unchanged.
C5_DuplicateRejected ==
  [][(/\ req'.op = "add_worker"
      /\ \E i \in 2..Len(sheets["Workers"]) :
            sheets["Workers"][i][Col("Workers", "Name")] = req'.name)
       => sheets'["Workers"] = sheets["Workers"]]_vars

\* C6: after update_row_data(table, id, data) a fetch of the table shows,
\* in the row whose ID is id, the new value in every named column of the
\* header and the previous value in every other column, and every other
\* row unchanged.
C6_RoundTrip ==
  [][(req'.op = "edit_wl" /\ ret' = "True") =>
       LET before == get_all_records(sheets["WorkLogs"])
           after == get_data(sheets'["WorkLogs"], FALSE).rows
           headers == sheets["WorkLogs"][1]
       IN /\ Len(after) = Len(before)
          /\ \A i \in 1..Len(before) : \A k \in 1..Len(headers) :
               after[i][headers[k]] =
                 IF before[i]["ID"] = req'.id /\ headers[k] \in DOMAIN req'.data
                   THEN req'.data[headers[k]]
                   ELSE before[i][headers[k]]]_vars

\* The table of material substrings and thresholds the source applies: one
\* threshold for every material name (the empty substring).
LowStockTable == [k \in {""} |-> LowStockThreshold]
Contains(name, k) == k = "" \/ k = name

\* C7: a ledger entry gets the low-stock alert iff a substring of the table
\* is contained in its material name and its quantity is below that
\* threshold; at or above the threshold there is no alert.
C7_LowStock ==
  /\ Len(metrics) = Len(current_stock)
  /\ \A i \in 1..Len(current_stock) :
       LET e == current_stock[i]
       IN \E j \in 1..Len(metrics) :
            /\ metrics[j].label = e.item
            /\ metrics[j].delta = "Low" <=>
                 \E k \in DOMAIN LowStockTable : Contains(e.item, k) /\ e.qty < LowStockTable[k]
            /\ e.qty >= 10 => metrics[j].delta = "None"

\* The overview shows a material exactly at the threshold without alert,
\* one just below it with the alert.
C7_Witness ==
  /\ \E j \in 1..Len(metrics) : metrics[j].value = "10" /\ metrics[j].delta = "None"
  /\ \E j \in 1..Len(metrics) : metrics[j].value = "9" /\ metrics[j].delta = "Low"

\* C8: a mutating call that changed the store has cleared the whole cache
\* before the next fetch, so no cached worksheet predates the latest change
\* of the store, also when the call ended in an error after changing rows.
C8_CacheInvalidated == stale = {}

\* C9: after bulk_delete_rows(table, ids) with a non-empty id list the
\* table holds exactly the rows whose ID is not in ids, in their original
\* order.
C9_BulkDelete ==
  [][(req'.op = "delete_groups" /\ ret' = "True") =>
       Tail(sheets'["WorkLogs"]) =
         SelectSeq(Tail(sheets["WorkLogs"]),
                   LAMBDA row : \A k \in 1..Len(req'.ids) :
                                  row[Col("WorkLogs", "ID")] # req'.ids[k])]_vars

\* No data row of WorkLogs has the ID id.
NoRowWithId(id) ==
  \A i \in 2..Len(sheets["WorkLogs"]) : sheets["WorkLogs"][i][Col("WorkLogs", "ID")] # id

\* C10: when the identifier given to update_row_data or to
\* bulk_delete_rows matches no row, the call reports a failure (it returns
\* False or shows a message, never success) and the table is unchanged.
C10_NotFound ==
  [][/\ (req'.op = "edit_wl" /\ NoRowWithId(req'.id))
          => (ret' = "False" /\ shown' # "" /\ sheets' = sheets)
     /\ (req'.op = "delete_groups" /\ \A k \in 1..Len(req'.ids) : NoRowWithId(req'.ids[k]))
          => (ret' = "False" /\ shown' # "" /\ sheets' = sheets)]_vars

\* What a run without handler leaves: the store as it was, and in the cache
\* the frames it held, an empty frame for every fetch that failed and the
\* records of the worksheet for every other fetch; nothing is raised.
C11_Fetched ==
  (req'.op = "render" /\ cache' # NoCache) =>
    /\ sheets' = sheets
    /\ ret' = "" /\ shown' = ""
    /\ DOMAIN cache' = Tables
    /\ \A t \in Tables :
         cache'[t] = IF t \in DOMAIN cache THEN cache[t]
                     ELSE IF t \in req'.fails THEN EmptyFrame
                     ELSE IF Len(sheets[t]) < 2 THEN EmptyFrame
                     ELSE [columns |-> sheets[t][1], rows |-> get_all_records(sheets[t])]
    /\ (\A t \in Tables : cache'[t] = EmptyFrame) => workers' = <<"General">> /\ metrics' = <<>>

\* A run halted by get_connection shows the connection error and changes
\* neither the store nor the cache.
C11_Halted ==
  req'.op = "halt" =>
    /\ sheets' = sheets /\ cache' = cache
    /\ shown' = "Connection Error"

\* C11 (original): get_data returns an empty collection on any failure, the
\* connection and auth failures included, never propagates an error or
\* halts the render pass, and modifies nothing in the store.
C11_NeverHalts == [][C11_Fetched /\ ret' # "stop" /\ ret' # "raise"]_vars

\* C11 (amended): get_data returns an empty collection when opening the
\* spreadsheet, opening the worksheet or reading fails and propagates no
\* error; a failure of get_connection shows "Connection Error" and halts
\* the render pass; a fetch modifies nothing in the store.
C11_FetchOrHalt == [][C11_Fetched /\ C11_Halted]_vars

\* A render in which the fetch of Inventory failed although the worksheet
\* holds rows: the cache holds the empty frame for it.
C11_Witness ==
  /\ req.op = "render" /\ "Inventory" \in req.fails
  /\ Len(sheets["Inventory"]) > 1
  /\ cache["Inventory"] = EmptyFrame
  /\ metrics = <<>>

\* C12: the sync flag is reset on every create and every update: after a
\* create or update operation (save_row, save_batch_rows, update_row_data,
\* update_worker_registry) every row the operation created or modified has
\* Synced = "FALSE".
Written(t) ==
  {i \in 2..Len(sheets'[t]) : \A j \in 2..Len(sheets[t]) : sheets'[t][i] # sheets[t][j]}

C12_SyncedReset ==
  [][\A t \in Tables : \A i \in Written(t) :
        sheets'[t][i][Col(t, "Synced")] = "FALSE"]_vars


\* C13: quantity fields are non-negative in every reachable state: every
\* Qty of WorkLogs and of Inventory is >= 0 after any sequence of submits,
\* stock additions, edits and deletes.
C13_QtyNonNegative ==
  \A t \in {"WorkLogs", "Inventory"} : \A i \in 2..Len(sheets[t]) :
     QtyOf(sheets[t][i][Col(t, "Qty")]) >= 0

\* C14: worker names are unique in the Workers table in every reachable
\* state: no two rows of Workers have the same Name after any sequence of
\* Add Worker submissions and Save List operations.
C14_UniqueNames ==
  \A i, j \in 2..Len(sheets["Workers"]) :
     sheets["Workers"][i][Col("Workers", "Name")] = sheets["Workers"][j][Col("Workers", "Name")]
       => i = j

\* C15: two sessions that update the same row through update_row_data
\* while their runs overlap resolve last-write-wins at the cell level: every
\* write of either leaves, in the row whose ID is the given id, its value in
\* each column it names and the previous value in every other column, and
\* changes no cell of any other row, so that each cell ends with the value
\* of the latest write that named its column.
Other(c) == CHOOSE d \in Sessions : d # c

Overlapping(c) ==
  /\ sessions[c].pc = "write" /\ sessions'[c] = Idle
  /\ sessions[Other(c)].pc \in {"found", "write"}
  /\ sessions[Other(c)].id = sessions[c].id

C15_LastWriteWins ==
  [][\A c \in Sessions : Overlapping(c) =>
       LET grid == sheets["WorkLogs"]
           s == sessions[c]
       IN /\ Len(sheets'["WorkLogs"]) = Len(grid)
          /\ \A i \in 2..Len(grid) : \A k \in 1..Len(grid[1]) :
                sheets'["WorkLogs"][i][k] =
                  IF grid[i][Col("WorkLogs", "ID")] = s.id /\ grid[1][k] \in DOMAIN s.data
                    THEN s.data[grid[1][k]]
                    ELSE grid[i][k]]_vars

\* C16 as stated: the consolidation puts any two filtered rows with the same
\* (date, asset-id, worker) into one displayed group, the ID lists of the
\* groups partition the filtered rows, each list holding exactly the IDs of
\* the rows with its group's key, and the fold writes nothing to the store.
Viewed == FilteredRows(cache["WorkLogs"], req.flt)
ViewedIds(P(_)) == {Viewed[i]["ID"] : i \in {k \in 1..Len(Viewed) : P(Viewed[k])}}
IdsOf(g) == {g.ID[k] : k \in 1..Len(g.ID)}

SameEvent(r, q) ==
  /\ r["Date"] = q["Date"]
  /\ r[IdCol(cache["WorkLogs"])] = q[IdCol(cache["WorkLogs"])]
  /\ r["Worker"] = q["Worker"]

SameBox(r, q) ==
  /\ "Transformer_SS_No" \in DOMAIN r => r["Transformer_SS_No"] = q["Transformer_SS_No"]
  /\ "DTR_Box_No" \in DOMAIN r => r["DTR_Box_No"] = q["DTR_Box_No"]

Partition ==
  /\ \A i \in 1..Len(Viewed) :
        Cardinality({g \in grouped : Viewed[i]["ID"] \in IdsOf(g)}) = 1
  /\ \A g \in grouped : \A k, l \in 1..Len(g.ID) : g.ID[k] = g.ID[l] => k = l

ViewRun == req'.op = "view_logs" /\ cache' # NoCache /\ req' # req

C16_EventGroups ==
  [][ViewRun =>
       /\ sheets' = sheets
       /\ Partition'
       /\ \A i \in 1..Len(Viewed') : \E g \in grouped' :
             IdsOf(g) = ViewedIds(LAMBDA r : SameEvent(r, Viewed[i]))']_vars

\* C16, amended: the key of a group is (date, asset-id, worker) with the
\* substation number and the box number where the worksheet has these
\* columns: two filtered rows fall into one group exactly if they agree on
\* all of them, the ID lists partition the filtered rows, and the fold
\* writes nothing to the store.
C16_KeyGroups ==
  [][ViewRun =>
       /\ sheets' = sheets
       /\ Partition'
       /\ \A i \in 1..Len(Viewed') : \E g \in grouped' :
             IdsOf(g) = ViewedIds(LAMBDA r : SameEvent(r, Viewed[i]) /\ SameBox(r, Viewed[i]))']_vars

\* C16's case: three rows of one day, asset and worker, two of one box and
\* one of another, displayed as two groups.
C16_Witness ==
  /\ req.op = "view_logs" /\ req.flt = NoFilter /\ cache # NoCache
  /\ Len(Viewed) = 3
  /\ \A i, j \in 1..3 : SameEvent(Viewed[i], Viewed[j])
  /\ Cardinality(grouped) = 2
  /\ \E g \in grouped : Len(g.ID) = 2

\* C17: update_row_data(table, id, data) and bulk_delete_rows(table, ids)
\* act only on rows whose ID is id / is in ids, whatever rows another
\* session deletes or appends between the locate step and the write step:
\* a batch_update changes no row with another ID and adds none, a
\* delete_rows removes no row with another ID.
RowsOf(grid) == {grid[i] : i \in 2..Len(grid)}

C17_GivenIdsOnly ==
  [][\A c \in Sessions :
       LET grid == sheets["WorkLogs"]
           s == sessions[c]
       IN /\ (s.pc = "write" /\ sessions'[c] = Idle) =>
               \A row \in RowsOf(grid) \cup RowsOf(sheets'["WorkLogs"]) :
                  row \in RowsOf(grid) \cap RowsOf(sheets'["WorkLogs"])
                    \/ row[Col("WorkLogs", "ID")] = s.id
          /\ (s.pc = "delete" /\ sessions'[c] # s) =>
               /\ RowsOf(sheets'["WorkLogs"]) \subseteq RowsOf(grid)
               /\ \A row \in RowsOf(grid) \ RowsOf(sheets'["WorkLogs"]) :
                     \E k \in 1..Len(s.ids) : row[Col("WorkLogs", "ID")] = s.ids[k]]_vars

====
